---- MODULE Spec2Model ----
(***************************************************************************)
(* Model of the time-booking prototype (app/page.tsx, app/data/mock.ts).   *)
(*                                                                         *)
(* A JavaScript string is modelled as a sequence of one-character strings, *)
(* so that indexing, slicing, trimming and case folding are computed and   *)
(* not assumed.  `number | null` results are modelled as sequences of      *)
(* length at most one: << >> is null and <<v>> is the number v.            *)
(***************************************************************************)
EXTENDS Integers, Sequences, FiniteSets, TLC

VARIABLES
    timeText,       \* parser run: the text handed to parseTimeInput
    parsedMinutes,  \* parser run: parseTimeInput(timeText), once computed
    shownText,      \* parser run: formatDuration of the parsed minutes
    reparsed,       \* parser run: parseTimeInput(shownText)
    parseStep,      \* parser run: "input", "parsed", "shown" or "reparsed"
    matchText,      \* matcher run: the text (label) handed to fuzzyMatch
    matchQuery,     \* matcher run: the query handed to fuzzyMatch
    matched,        \* matcher run: fuzzyMatch(matchText, matchQuery)
    matchStep,      \* matcher run: "input" or "matched"
    ssItems,        \* SearchSelect: the items prop
    ssValue,        \* SearchSelect: the value prop (the parent's selection), or null
    ssQuery,        \* SearchSelect: the query state (the text of the input)
    ssIsOpen,       \* SearchSelect: the isOpen state (dropdown shown)
    ssKeyEvent,     \* SearchSelect: the keydown event of the last step, or null
    bookings,       \* Home: the bookings state
    selectedDate,   \* Home: the selectedDate state, as a day number
    worked,         \* the row the user works in: a booking id, or "new"
    selectedProject,    \* BookingRow (the worked row): selectedProject state
    selectedPhase,      \* BookingRow (the worked row): selectedPhase state
    timeInput,          \* BookingRow (the worked row): timeInput state
    description,        \* BookingRow (the worked row): description state
    handlerRows,    \* Home: todaysBookings.length as the keydown handler sees it
    homeKeyEvent,   \* Home: the shortcut key the last step handled, or null
    blurEvent,      \* Home: the last step was a blur of a field of the worked row
    rawMinutes,     \* rounding run: the minutes handed to roundTo15, or null
    roundedMinutes, \* rounding run: roundTo15(rawMinutes), once computed
    roundStep       \* rounding run: "input" or "rounded"

parseVars == <<timeText, parsedMinutes, shownText, reparsed, parseStep>>

matchVars == <<matchText, matchQuery, matched, matchStep>>

selectVars == <<ssItems, ssValue, ssQuery, ssIsOpen, ssKeyEvent>>

rowVars == <<selectedProject, selectedPhase, timeInput, description>>

keyVars == <<handlerRows, homeKeyEvent>>

homeVars == <<bookings, selectedDate, worked, rowVars, keyVars, blurEvent>>

roundVars == <<rawMinutes, roundedMinutes, roundStep>>

vars == <<parseVars, matchVars, selectVars, homeVars, roundVars>>

(***************************************************************************)
(* Bounds of the model.                                                    *)
(***************************************************************************)
\* longest enumerated time text (the named example texts may be longer)
MaxLen == 3

\* longest text and longest query handed to fuzzyMatch in a matcher run
MaxTextLen == 4

MaxQueryLen == 3

\* longest enumerated text typed into a SearchSelect (examples may be longer)
MaxTypedLen == 2

\* the weeks before and after the current one the user navigates to
MaxWeek == 1

\* the numerators of the minute values handed to roundTo15 go up to MaxRaw
MaxRaw == 80

(***************************************************************************)
(* Strings.                                                                *)
(***************************************************************************)
null == << >>

Some(v) == <<v>>

Digits == <<"0", "1", "2", "3", "4", "5", "6", "7", "8", "9">>

UpperCase == <<"A", "B", "C", "D", "E", "F", "G", "H", "I", "J", "K", "L", "M",
               "N", "O", "P", "Q", "R", "S", "T", "U", "V", "W", "X", "Y", "Z">>

LowerCase == <<"a", "b", "c", "d", "e", "f", "g", "h", "i", "j", "k", "l", "m",
               "n", "o", "p", "q", "r", "s", "t", "u", "v", "w", "x", "y", "z">>

\* the characters String.prototype.trim removes and the regular expression \s matches
WhiteSpace == {" ", "\t", "\n"}

Range(seq) == {seq[i] : i \in 1..Len(seq)}

IndexIn(c, chars) == CHOOSE i \in 1..Len(chars) : chars[i] = c

IsDigit(c) == \E i \in 1..Len(Digits) : Digits[i] = c

DigitVal(c) == IndexIn(c, Digits) - 1

\* \d+ : one or more digits and nothing else
AllDigits(s) == Len(s) >= 1 /\ \A i \in 1..Len(s) : IsDigit(s[i])

LowerChar(c) ==
    IF \E i \in 1..Len(UpperCase) : UpperCase[i] = c
    THEN LowerCase[IndexIn(c, UpperCase)]
    ELSE c

\* String.prototype.toLowerCase
toLowerCase(s) == [i \in 1..Len(s) |-> LowerChar(s[i])]

RECURSIVE trimStart(_)
trimStart(s) ==
    IF s # << >> /\ Head(s) \in WhiteSpace THEN trimStart(Tail(s)) ELSE s

RECURSIVE trimEnd(_)
trimEnd(s) ==
    IF s # << >> /\ s[Len(s)] \in WhiteSpace
    THEN trimEnd(SubSeq(s, 1, Len(s) - 1))
    ELSE s

\* String.prototype.trim
trim(s) == trimEnd(trimStart(s))

\* String(n) for a non-negative integer n
RECURSIVE NumToString(_)
NumToString(n) ==
    IF n < 10 THEN <<Digits[n + 1]>>
    ELSE NumToString(n \div 10) \o <<Digits[(n % 10) + 1]>>

\* parseInt(s, 10) for s matching \d+
RECURSIVE parseInt(_)
parseInt(s) ==
    IF Len(s) = 1 THEN DigitVal(s[1])
    ELSE 10 * parseInt(SubSeq(s, 1, Len(s) - 1)) + DigitVal(s[Len(s)])

RECURSIVE Pow10(_)
Pow10(k) == IF k = 0 THEN 1 ELSE 10 * Pow10(k - 1)

(***************************************************************************)
(* Numbers.  A JavaScript number that is not an integer only arises from   *)
(* parseFloat of a short decimal text; it is kept as the exact fraction    *)
(* num/den.  Within the lengths explored the double arithmetic of          *)
(* hours * 60 and minutes / 15 cannot cross a rounding boundary: a value   *)
(* exactly on a boundary (k + 0.5) is a dyadic fraction and is exact in    *)
(* binary, every other value is further from it than the rounding error.   *)
(***************************************************************************)
Num(n, d) == [num |-> n, den |-> d]

Whole(n) == Num(n, 1)

Times(x, k) == Num(x.num * k, x.den)

DividedBy(x, k) == Num(x.num, x.den * k)

\* \d*\.?\d+ : digits, at most one '.', and a digit at the end
IsNumberText(s) ==
    /\ Len(s) >= 1
    /\ IsDigit(s[Len(s)])
    /\ \A i \in 1..Len(s) : IsDigit(s[i]) \/ s[i] = "."
    /\ Cardinality({i \in 1..Len(s) : s[i] = "."}) <= 1

\* \d*\.\d+ : the same with exactly one '.'
IsDecimalText(s) ==
    /\ IsNumberText(s)
    /\ Cardinality({i \in 1..Len(s) : s[i] = "."}) = 1

\* parseFloat stopping at the decimal point, as parseInt does
parseFloat_IntegerPart(s) ==
    IF AllDigits(s) THEN Whole(parseInt(s))
    ELSE LET dot == CHOOSE i \in 1..Len(s) : s[i] = "."
             int == SubSeq(s, 1, dot - 1)
         IN  Whole(IF int = << >> THEN 0 ELSE parseInt(int))

\* parseFloat(s) for s matching \d*\.?\d+
parseFloat(s) ==
    IF AllDigits(s) THEN Whole(parseInt(s))
    ELSE LET dot  == CHOOSE i \in 1..Len(s) : s[i] = "."
             int  == SubSeq(s, 1, dot - 1)
             frac == SubSeq(s, dot + 1, Len(s))
             ip   == IF int = << >> THEN 0 ELSE parseInt(int)
         IN  Num(ip * Pow10(Len(frac)) + parseInt(frac), Pow10(Len(frac)))

\* Math.round(x) = floor(x + 1/2) for the fraction x
MathRound(x) == (2 * x.num + x.den) \div (2 * x.den)

(***************************************************************************)
(* Duration formatting and parsing (page.tsx).                             *)
(***************************************************************************)
formatDuration(minutes) ==
    LET hours == minutes \div 60
        mins  == minutes % 60
    IN  IF hours = 0 THEN NumToString(mins) \o <<"m">>
        ELSE IF mins = 0 THEN NumToString(hours) \o <<"h">>
        ELSE NumToString(hours) \o <<"h", " ">> \o NumToString(mins) \o <<"m">>

\* roundTo15 without the final "* 15"
roundTo15_Unscaled(minutes) == MathRound(DividedBy(minutes, 15))

\* roundTo15 with Math.floor in place of Math.round
roundTo15_Floor(minutes) == (minutes.num \div (15 * minutes.den)) * 15

\* roundTo15 with halves rounded down: ceil(minutes / 15 - 1/2) * 15
roundTo15_HalfDown(minutes) ==
    (0 - ((15 * minutes.den - 2 * minutes.num) \div (30 * minutes.den))) * 15

roundTo15(minutes) == MathRound(DividedBy(minutes, 15)) * 15

\* trimmed.match(/^(\d+):(\d{1,2})$/) : the two groups, or null
colonMatch(t) ==
    LET at == {i \in 1..Len(t) : t[i] = ":"}
    IN  IF /\ Cardinality(at) = 1
           /\ LET i == CHOOSE j \in at : TRUE
              IN  /\ AllDigits(SubSeq(t, 1, i - 1))
                  /\ AllDigits(SubSeq(t, i + 1, Len(t)))
                  /\ Len(t) - i \in 1..2
        THEN LET i == CHOOSE j \in at : TRUE
             IN  <<SubSeq(t, 1, i - 1), SubSeq(t, i + 1, Len(t))>>
        ELSE null

\* the text before a unit suffix: t without its last character and without
\* the white space (\s*) in front of that character
BeforeSuffix(t) == trimEnd(SubSeq(t, 1, Len(t) - 1))

\* hourMatch with /^(\d*\.?\d+)\s*h?$/ : the unit is optional
hourMatch_OptionalUnit(t) ==
    IF IsNumberText(t) THEN <<t>>
    ELSE IF Len(t) >= 1 /\ t[Len(t)] = "h" /\ IsNumberText(BeforeSuffix(t))
    THEN <<BeforeSuffix(t)>>
    ELSE null

\* trimmed.match(/^(\d*\.?\d+)\s*h$/) : the group, or null
hourMatch(t) ==
    IF Len(t) >= 1 /\ t[Len(t)] = "h" /\ IsNumberText(BeforeSuffix(t))
    THEN <<BeforeSuffix(t)>>
    ELSE null

\* minMatch with /^(\d+).?m$/ : any one character allowed before the unit
minMatch_AnyGap(t) ==
    IF Len(t) >= 2 /\ t[Len(t)] = "m" /\ AllDigits(SubSeq(t, 1, Len(t) - 1))
    THEN <<SubSeq(t, 1, Len(t) - 1)>>
    ELSE IF Len(t) >= 3 /\ t[Len(t)] = "m" /\ AllDigits(SubSeq(t, 1, Len(t) - 2))
    THEN <<SubSeq(t, 1, Len(t) - 2)>>
    ELSE null

\* trimmed.match(/^(\d+)\s*m$/) : the group, or null
minMatch(t) ==
    IF Len(t) >= 1 /\ t[Len(t)] = "m" /\ AllDigits(BeforeSuffix(t))
    THEN <<BeforeSuffix(t)>>
    ELSE null

\* plainMatch with /^(\d{1,2})$/ : at most two digits
plainMatch_TwoDigits(t) == IF AllDigits(t) /\ Len(t) <= 2 THEN <<t>> ELSE null

\* trimmed.match(/^(\d+)$/) : the group, or null
plainMatch(t) == IF AllDigits(t) THEN <<t>> ELSE null

\* decimalMatch with /^(\d+\.\d+)$/ : a digit required before the point
decimalMatch_LeadingDigit(t) ==
    IF IsDecimalText(t) /\ t[1] # "." THEN <<t>> ELSE null

\* trimmed.match(/^(\d*\.\d+)$/) : the group, or null
decimalMatch(t) == IF IsDecimalText(t) THEN <<t>> ELSE null

\* parseTimeInput without the test "mins >= 60"
parseTimeInput_AnyMinutes(input) ==
    LET trimmed == toLowerCase(trim(input))
    IN  IF trimmed = << >> THEN null
        ELSE IF colonMatch(trimmed) # null THEN
            LET hours == parseInt(colonMatch(trimmed)[1])
                mins  == parseInt(colonMatch(trimmed)[2])
            IN  Some(roundTo15(Whole(hours * 60 + mins)))
        ELSE IF hourMatch(trimmed) # null THEN
            Some(roundTo15(Times(parseFloat(hourMatch(trimmed)[1]), 60)))
        ELSE IF minMatch(trimmed) # null THEN
            Some(roundTo15(Whole(parseInt(minMatch(trimmed)[1]))))
        ELSE IF plainMatch(trimmed) # null THEN
            Some(roundTo15(Whole(parseInt(plainMatch(trimmed)[1]))))
        ELSE IF decimalMatch(trimmed) # null THEN
            Some(roundTo15(Times(parseFloat(decimalMatch(trimmed)[1]), 60)))
        ELSE null

\* parseTimeInput returning 0 for the empty text
parseTimeInput_EmptyIsZero(input) ==
    LET trimmed == toLowerCase(trim(input))
    IN  IF trimmed = << >> THEN Some(0)
        ELSE IF colonMatch(trimmed) # null THEN
            LET hours == parseInt(colonMatch(trimmed)[1])
                mins  == parseInt(colonMatch(trimmed)[2])
            IN  IF mins >= 60 THEN null
                ELSE Some(roundTo15(Whole(hours * 60 + mins)))
        ELSE IF hourMatch(trimmed) # null THEN
            Some(roundTo15(Times(parseFloat(hourMatch(trimmed)[1]), 60)))
        ELSE IF minMatch(trimmed) # null THEN
            Some(roundTo15(Whole(parseInt(minMatch(trimmed)[1]))))
        ELSE IF plainMatch(trimmed) # null THEN
            Some(roundTo15(Whole(parseInt(plainMatch(trimmed)[1]))))
        ELSE IF decimalMatch(trimmed) # null THEN
            Some(roundTo15(Times(parseFloat(decimalMatch(trimmed)[1]), 60)))
        ELSE null

parseTimeInput(input) ==
    LET trimmed == toLowerCase(trim(input))
    IN  IF trimmed = << >> THEN null
        ELSE IF colonMatch(trimmed) # null THEN
            LET hours == parseInt(colonMatch(trimmed)[1])
                mins  == parseInt(colonMatch(trimmed)[2])
            IN  IF mins >= 60 THEN null
                ELSE Some(roundTo15(Whole(hours * 60 + mins)))
        ELSE IF hourMatch(trimmed) # null THEN
            Some(roundTo15(Times(parseFloat(hourMatch(trimmed)[1]), 60)))
        ELSE IF minMatch(trimmed) # null THEN
            Some(roundTo15(Whole(parseInt(minMatch(trimmed)[1]))))
        ELSE IF plainMatch(trimmed) # null THEN
            Some(roundTo15(Whole(parseInt(plainMatch(trimmed)[1]))))
        ELSE IF decimalMatch(trimmed) # null THEN
            Some(roundTo15(Times(parseFloat(decimalMatch(trimmed)[1]), 60)))
        ELSE null

(***************************************************************************)
(* Mock data (data/mock.ts).                                               *)
(***************************************************************************)
mockProjects == <<
    [id |-> "1", name |-> <<"A", "n", "t", "h", "r", "o", "p", "i", "c">>],
    [id |-> "2", name |-> <<"V", "e", "r", "c", "e", "l">>],
    [id |-> "3", name |-> <<"S", "t", "r", "i", "p", "e">>],
    [id |-> "4", name |-> <<"L", "i", "n", "e", "a", "r">>],
    [id |-> "5", name |-> <<"F", "i", "g", "m", "a">>] >>

mockPhases == <<
    [id |-> "1-1", projectId |-> "1",
     name |-> <<"D", "e", "v", "e", "l", "o", "p", "m", "e", "n", "t", " ", "C", "l", "a", "u", "d", "e", " ", "C", "o", "d", "e">>],
    [id |-> "1-2", projectId |-> "1",
     name |-> <<"D", "e", "s", "i", "g", "n", " ", "R", "e", "v", "i", "e", "w">>],
    [id |-> "1-3", projectId |-> "1",
     name |-> <<"T", "e", "s", "t", "i", "n", "g", " ", "&", " ", "Q", "A">>],
    [id |-> "2-1", projectId |-> "2",
     name |-> <<"F", "r", "o", "n", "t", "e", "n", "d", " ", "D", "e", "v", "e", "l", "o", "p", "m", "e", "n", "t">>],
    [id |-> "2-2", projectId |-> "2",
     name |-> <<"I", "n", "f", "r", "a", "s", "t", "r", "u", "c", "t", "u", "r", "e">>],
    [id |-> "2-3", projectId |-> "2",
     name |-> <<"D", "o", "c", "u", "m", "e", "n", "t", "a", "t", "i", "o", "n">>],
    [id |-> "3-1", projectId |-> "3",
     name |-> <<"A", "P", "I", " ", "I", "n", "t", "e", "g", "r", "a", "t", "i", "o", "n">>],
    [id |-> "3-2", projectId |-> "3",
     name |-> <<"P", "a", "y", "m", "e", "n", "t", " ", "F", "l", "o", "w", " ", "D", "e", "s", "i", "g", "n">>],
    [id |-> "3-3", projectId |-> "3",
     name |-> <<"S", "e", "c", "u", "r", "i", "t", "y", " ", "A", "u", "d", "i", "t">>],
    [id |-> "4-1", projectId |-> "4",
     name |-> <<"F", "e", "a", "t", "u", "r", "e", " ", "D", "e", "v", "e", "l", "o", "p", "m", "e", "n", "t">>],
    [id |-> "4-2", projectId |-> "4",
     name |-> <<"B", "u", "g", " ", "F", "i", "x", "e", "s">>],
    [id |-> "5-1", projectId |-> "5",
     name |-> <<"D", "e", "s", "i", "g", "n", " ", "S", "y", "s", "t", "e", "m">>],
    [id |-> "5-2", projectId |-> "5",
     name |-> <<"P", "r", "o", "t", "o", "t", "y", "p", "i", "n", "g">>],
    [id |-> "5-3", projectId |-> "5",
     name |-> <<"U", "s", "e", "r", " ", "R", "e", "s", "e", "a", "r", "c", "h">>] >>

getPhasesForProject(projectId) ==
    SelectSeq(mockPhases, LAMBDA phase : phase.projectId = projectId)

(***************************************************************************)
(* Fuzzy matching (page.tsx).                                              *)
(***************************************************************************)
\* the for loop of fuzzyMatch from position i on (positions count from 1):
\* the value of queryIndex when the loop ends
RECURSIVE fuzzyScan(_, _, _, _)
fuzzyScan(lowerText, lowerQuery, i, queryIndex) ==
    IF i <= Len(lowerText) /\ queryIndex <= Len(lowerQuery)
    THEN fuzzyScan(lowerText, lowerQuery, i + 1,
                   IF lowerText[i] = lowerQuery[queryIndex]
                   THEN queryIndex + 1 ELSE queryIndex)
    ELSE queryIndex

\* fuzzyMatch comparing the text as it is written (text.toLowerCase() left out)
fuzzyMatch_TextAsWritten(text, query) ==
    fuzzyScan(text, toLowerCase(query), 1, 1) = Len(query) + 1

\* fuzzyMatch restarting the query when a character does not match, which
\* accepts contiguous occurrences only
RECURSIVE contiguousScan(_, _, _, _)
contiguousScan(lowerText, lowerQuery, i, queryIndex) ==
    IF i <= Len(lowerText) /\ queryIndex <= Len(lowerQuery)
    THEN contiguousScan(lowerText, lowerQuery, i + 1,
                        IF lowerText[i] = lowerQuery[queryIndex]
                        THEN queryIndex + 1
                        ELSE IF lowerText[i] = lowerQuery[1] THEN 2 ELSE 1)
    ELSE queryIndex

fuzzyMatch_Contiguous(text, query) ==
    contiguousScan(toLowerCase(text), toLowerCase(query), 1, 1) = Len(query) + 1

fuzzyMatch(text, query) ==
    LET lowerText  == toLowerCase(text)
        lowerQuery == toLowerCase(query)
    IN  fuzzyScan(lowerText, lowerQuery, 1, 1) = Len(lowerQuery) + 1

(***************************************************************************)
(* SearchSelect (page.tsx): the values computed on every render.           *)
(***************************************************************************)
\* getLabel={(p) => p.name}, for the project and for the phase select
getLabel(item) == item.name

\* String.prototype.startsWith
startsWith(s, prefix) ==
    Len(prefix) <= Len(s) /\ SubSeq(s, 1, Len(prefix)) = prefix

\* String.prototype.slice(start)
slice(s, start) == SubSeq(s, start + 1, Len(s))

\* filteredItems with the literal prefix matches moved to the front
filteredItems_PrefixFirst(items, query) ==
    IF query # << >>
    THEN SelectSeq(items, LAMBDA item :
             /\ fuzzyMatch(getLabel(item), query)
             /\ startsWith(toLowerCase(getLabel(item)), toLowerCase(query)))
         \o
         SelectSeq(items, LAMBDA item :
             /\ fuzzyMatch(getLabel(item), query)
             /\ ~startsWith(toLowerCase(getLabel(item)), toLowerCase(query)))
    ELSE items

filteredItems(items, query) ==
    IF query # << >>
    THEN SelectSeq(items, LAMBDA item : fuzzyMatch(getLabel(item), query))
    ELSE items

\* suggestion taking the last match
suggestion_LastMatch(items, query) ==
    IF query # << >> /\ Len(filteredItems(items, query)) > 0
    THEN filteredItems(items, query)[Len(filteredItems(items, query))]
    ELSE null

suggestion(items, query) ==
    IF query # << >> /\ Len(filteredItems(items, query)) > 0
    THEN filteredItems(items, query)[1]
    ELSE null

suggestionLabel(items, query) ==
    IF suggestion(items, query) # null
    THEN getLabel(suggestion(items, query))
    ELSE << >>

\* showInlineSuggestion without the startsWith test
showInlineSuggestion_AnyMatch(items, query) ==
    /\ suggestion(items, query) # null
    /\ Len(query) > 0

showInlineSuggestion(items, query) ==
    /\ suggestion(items, query) # null
    /\ startsWith(toLowerCase(suggestionLabel(items, query)), toLowerCase(query))
    /\ Len(query) > 0

\* the text of the suggestion overlay, or null when the overlay is not rendered
inlineCompletion(items, query, value) ==
    IF showInlineSuggestion(items, query) /\ value = null
    THEN Some(slice(suggestionLabel(items, query), Len(query)))
    ELSE null

\* the effect on [value, getLabel]: the query it sets
valueSyncEffect(value) == IF value # null THEN getLabel(value) ELSE << >>

(***************************************************************************)
(* SpecParse: one run of the duration parser on a drawn text, followed by  *)
(* the round trip a booking row performs: BookingRow shows                 *)
(* formatDuration(booking.duration) in the time field and validates the    *)
(* field with parseTimeInput.                                              *)
(***************************************************************************)
TimeAlphabet ==
    {"0", "1", "2", "3", "5", "7", ":", ".", "h", "m", " ", "H", "x"}

SeqsUpTo(A, n) == UNION {[1..k -> A] : k \in 0..n}

ExampleTexts ==
    { <<"2", ":", "3", "0">>, <<"2", ":", "7", "5">>, <<"1", ".", "5", "h">>,
      <<"0", ".", "1", "2", "5", "h">>, <<"1", "0", "0", "0">>,
      <<" ", "1", "h", " ">>, <<"1", " ", " ", "h">>, <<"1", "h", " ", "1", "5", "m">>,
      <<"0", ":", "6", "0">>, <<"1", ":", "5", "9">>, <<"0", ":", "0", "5">>,
      <<"0", ".", "1", "h">>, <<"a", "b", "c">>, <<" ", "\t", "\n">> }

TimeTexts == SeqsUpTo(TimeAlphabet, MaxLen) \cup ExampleTexts

\* the parser run is not used
ParseIdle ==
    /\ timeText = << >>
    /\ parsedMinutes = null
    /\ shownText = << >>
    /\ reparsed = null
    /\ parseStep = "idle"

\* the matcher run is not used
MatchIdle ==
    /\ matchText = << >>
    /\ matchQuery = << >>
    /\ matched = FALSE
    /\ matchStep = "idle"

\* no SearchSelect is mounted
SelectIdle ==
    /\ ssItems = << >>
    /\ ssValue = null
    /\ ssQuery = << >>
    /\ ssIsOpen = FALSE
    /\ ssKeyEvent = null

\* no page is mounted
HomeIdle ==
    /\ bookings = << >>
    /\ selectedDate = 0
    /\ worked = "none"
    /\ selectedProject = null
    /\ selectedPhase = null
    /\ timeInput = << >>
    /\ description = ""
    /\ handlerRows = 0
    /\ homeKeyEvent = null
    /\ blurEvent = FALSE

\* the rounding run is not used
RoundIdle ==
    /\ rawMinutes = null
    /\ roundedMinutes = null
    /\ roundStep = "idle"

ParseInit ==
    /\ MatchIdle
    /\ SelectIdle
    /\ HomeIdle
    /\ RoundIdle
    /\ timeText \in TimeTexts
    /\ parsedMinutes = null
    /\ shownText = << >>
    /\ reparsed = null
    /\ parseStep = "input"

Parse ==
    /\ parseStep = "input"
    /\ parsedMinutes' = parseTimeInput(timeText)
    /\ parseStep' = "parsed"
    /\ UNCHANGED <<timeText, shownText, reparsed, matchVars, selectVars, homeVars, roundVars>>

Show ==
    /\ parseStep = "parsed"
    /\ parsedMinutes # null
    /\ shownText' = formatDuration(parsedMinutes[1])
    /\ parseStep' = "shown"
    /\ UNCHANGED <<timeText, parsedMinutes, reparsed, matchVars, selectVars, homeVars, roundVars>>

Reparse ==
    /\ parseStep = "shown"
    /\ reparsed' = parseTimeInput(shownText)
    /\ parseStep' = "reparsed"
    /\ UNCHANGED <<timeText, parsedMinutes, shownText, matchVars, selectVars, homeVars, roundVars>>

ParseNext == Parse \/ Show \/ Reparse

SpecParse == ParseInit /\ [][ParseNext]_vars

(***************************************************************************)
(* Claims about the duration parser.                                       *)
(***************************************************************************)
Trimmed == toLowerCase(trim(timeText))

\* C1: every parsed minute value survives the round trip through shownText
\* formatting: parseTimeInput(formatDuration(v)) = v.
C1_RoundTrip == parseStep = "reparsed" => reparsed = parsedMinutes

\* C2: parseTimeInput returns null or a non-negative integer multiple of 15.
C2_NullOrMultipleOf15 ==
    parseStep \in {"parsed", "shown", "reparsed"} =>
        \/ parsedMinutes = null
        \/ /\ Len(parsedMinutes) = 1
           /\ parsedMinutes[1] \in Nat
           /\ parsedMinutes[1] % 15 = 0

C2_Witness ==
    /\ parseStep = "parsed"
    /\ hourMatch(Trimmed) # null
    /\ parsedMinutes # null
    /\ parsedMinutes[1] > 0

\* the shapes of the five notations, read off the text position by position
Blank(s) == \A i \in 1..Len(s) : s[i] \in WhiteSpace

DecimalShape(a) ==
    \E j \in 1..Len(a) :
        /\ a[j] = "."
        /\ j = 1 \/ AllDigits(SubSeq(a, 1, j - 1))
        /\ AllDigits(SubSeq(a, j + 1, Len(a)))

NumberShape(a) == AllDigits(a) \/ DecimalShape(a)

ColonShape(t) ==
    \E i \in 1..Len(t) :
        /\ t[i] = ":"
        /\ AllDigits(SubSeq(t, 1, i - 1))
        /\ AllDigits(SubSeq(t, i + 1, Len(t)))
        /\ Len(t) - i <= 2

\* number, then a gap, then the unit; the gap is empty in the strict shape
UnitShape(t, unit, strict) ==
    \E i \in 1..Len(t) :
        /\ Len(t) >= 2
        /\ t[Len(t)] = unit
        /\ i < Len(t)
        /\ IF unit = "h" THEN NumberShape(SubSeq(t, 1, i))
                         ELSE AllDigits(SubSeq(t, 1, i))
        /\ Blank(SubSeq(t, i + 1, Len(t) - 1))
        /\ strict => i = Len(t) - 1

KnownShape(t, strict) ==
    \/ ColonShape(t)
    \/ UnitShape(t, "h", strict)
    \/ UnitShape(t, "m", strict)
    \/ AllDigits(t)
    \/ DecimalShape(t)

\* C4 (as stated): a minute value is returned only for the five notations
\* written exactly, with nothing between a number and its unit suffix.
C4_ExactNotationsOnly ==
    (parseStep \in {"parsed", "shown", "reparsed"} /\ parsedMinutes # null) => KnownShape(Trimmed, TRUE)

\* C4 (amended): a minute value is returned only for the five notations,
\* where white space may stand between a number and its unit suffix.
C4_NotationsOnly ==
    (parseStep \in {"parsed", "shown", "reparsed"} /\ parsedMinutes # null) => KnownShape(Trimmed, FALSE)

C4_Witness ==
    /\ parseStep = "parsed"
    /\ parsedMinutes = null
    /\ timeText = <<"1", ".", "h">>

\* C5 (as stated): parseTimeInput("7") = 0 (parsed, not null) and
\* parseTimeInput("23") = 15.
C5_RoundingExamplesAsStated ==
    parseStep \in {"parsed", "shown", "reparsed"} =>
        /\ timeText = <<"7">> => parsedMinutes = Some(0)
        /\ timeText = <<"2", "3">> => parsedMinutes = Some(15)

\* C5 (amended): parseTimeInput("7") = 0 (parsed, not null) and
\* parseTimeInput("23") = 30, 23 being nearer to 30 than to 15; the largest
\* bare integer that parses to 15 is 22.
C5_RoundingExamples ==
    parseStep \in {"parsed", "shown", "reparsed"} =>
        /\ timeText = <<"7">> => parsedMinutes = Some(0)
        /\ timeText = <<"2", "3">> => parsedMinutes = Some(30)
        /\ timeText = <<"2", "2">> => parsedMinutes = Some(15)

C5_Witness ==
    parseStep = "parsed" /\ timeText = <<"2", "3">> /\ parsedMinutes = Some(30)

(***************************************************************************)
(* SpecMatch: one run of fuzzyMatch on a drawn text and query.             *)
(***************************************************************************)
MatchAlphabet == {"a", "A", "b"}

MatchInit ==
    /\ ParseIdle
    /\ SelectIdle
    /\ HomeIdle
    /\ RoundIdle
    /\ matchText \in SeqsUpTo(MatchAlphabet, MaxTextLen)
    /\ matchQuery \in SeqsUpTo(MatchAlphabet, MaxQueryLen)
    /\ matched = FALSE
    /\ matchStep = "input"

Match ==
    /\ matchStep = "input"
    /\ matched' = fuzzyMatch(matchText, matchQuery)
    /\ matchStep' = "matched"
    /\ UNCHANGED <<matchText, matchQuery, parseVars, selectVars, homeVars, roundVars>>

MatchNext == Match

SpecMatch == MatchInit /\ [][MatchNext]_vars

(***************************************************************************)
(* Claims about fuzzyMatch.                                                *)
(***************************************************************************)
\* letter case folded away, written out for the letters of MatchAlphabet
SameLetter(c, d) ==
    \/ c = d
    \/ {c, d} = {"a", "A"}
    \/ {c, d} = {"b", "B"}

\* q is carried by strictly increasing positions of t, up to letter case
IsSubsequence(q, t) ==
    \E f \in [1..Len(q) -> 1..Len(t)] :
        /\ \A i \in 1..Len(q) : SameLetter(q[i], t[f[i]])
        /\ \A i \in 1..Len(q) : \A j \in 1..Len(q) : i < j => f[i] < f[j]

\* C7: fuzzyMatch(text, query) is true exactly when the query is an ordered,
\* not necessarily contiguous, subsequence of the text up to letter case.
C7_SubsequenceExactly ==
    matchStep = "matched" => (matched <=> IsSubsequence(matchQuery, matchText))

\* a match that is neither contiguous nor of the same letter case
C7_Witness ==
    /\ matchStep = "matched"
    /\ matched
    /\ matchQuery = <<"A", "a">>
    /\ matchText = <<"a", "b", "A">>

(***************************************************************************)
(* SpecSelect: one mounted SearchSelect and the selection its parent keeps *)
(* for it.  Every action is one event handler together with the renders    *)
(* and effects React runs before the next event.                           *)
(***************************************************************************)
\* the item lists BookingRow passes: the projects, or the phases of a project
ItemLists ==
    {mockProjects} \cup {getPhasesForProject(p.id) : p \in Range(mockProjects)}

SelectAlphabet == {"a", "l", "p", "S", "t"}

ExampleQueries ==
    { <<"a", "p">>,
      <<"s", "t", "r">>,
      <<"r", "c", "l">>,
      <<"z", "z", "z">>,
      <<"S", "t">>,
      <<"L", "i">> }

TypedTexts == SeqsUpTo(SelectAlphabet, MaxTypedLen) \cup ExampleQueries

\* mounted, and the effect on [value, getLabel] has run once
SelectInit ==
    /\ ParseIdle
    /\ MatchIdle
    /\ HomeIdle
    /\ RoundIdle
    /\ ssItems \in ItemLists
    /\ ssValue \in {null} \cup Range(ssItems)
    /\ ssQuery = valueSyncEffect(ssValue)
    /\ ssIsOpen = FALSE
    /\ ssKeyEvent = null

\* input onChange: the text of the input becomes t.  When this clears the
\* parent's selection the parent renders again with a new getLabel and the
\* effect on [value, getLabel] sets the query from the (now null) value.
ChangeText(t) ==
    /\ t # ssQuery
    /\ ssIsOpen' = TRUE
    /\ IF ssValue # null /\ t # getLabel(ssValue)
       THEN /\ ssValue' = null
            /\ ssQuery' = valueSyncEffect(null)
       ELSE /\ ssValue' = ssValue
            /\ ssQuery' = t
    /\ ssKeyEvent' = null
    /\ UNCHANGED <<ssItems, parseVars, matchVars, homeVars, roundVars>>

\* input onClick
ClickInput ==
    /\ ssIsOpen' = TRUE
    /\ ssKeyEvent' = null
    /\ UNCHANGED <<ssItems, ssValue, ssQuery, parseVars, matchVars, homeVars, roundVars>>

\* input onBlur, and handleClickOutside
CloseDropdown ==
    /\ ssIsOpen' = FALSE
    /\ ssKeyEvent' = null
    /\ UNCHANGED <<ssItems, ssValue, ssQuery, parseVars, matchVars, homeVars, roundVars>>

\* a keydown event e: its key, and whether e.preventDefault() was called
KeyEvent(key, defaultPrevented) ==
    [key |-> key, defaultPrevented |-> defaultPrevented]

AcceptKeys == {"Enter", "Tab"}

ArrowKeys == {"ArrowUp", "ArrowDown"}

\* handleKeyDown accepting only a suggestion whose completion is shown
AcceptKey_CompletionOnly(key) ==
    /\ key \in AcceptKeys
    /\ IF showInlineSuggestion(ssItems, ssQuery) /\ ssValue = null
       THEN /\ ssKeyEvent' = KeyEvent(key, TRUE)
            /\ ssValue' = suggestion(ssItems, ssQuery)
            /\ ssQuery' = getLabel(suggestion(ssItems, ssQuery))
            /\ ssIsOpen' = FALSE
       ELSE /\ ssKeyEvent' = KeyEvent(key, FALSE)
            /\ UNCHANGED <<ssValue, ssQuery, ssIsOpen>>
    /\ UNCHANGED <<ssItems, parseVars, matchVars, homeVars, roundVars>>

\* handleKeyDown accepting without e.preventDefault()
AcceptKey_DefaultKept(key) ==
    /\ key \in AcceptKeys
    /\ ssKeyEvent' = KeyEvent(key, FALSE)
    /\ IF suggestion(ssItems, ssQuery) # null /\ ssValue = null
       THEN /\ ssValue' = suggestion(ssItems, ssQuery)
            /\ ssQuery' = getLabel(suggestion(ssItems, ssQuery))
            /\ ssIsOpen' = FALSE
       ELSE UNCHANGED <<ssValue, ssQuery, ssIsOpen>>
    /\ UNCHANGED <<ssItems, parseVars, matchVars, homeVars, roundVars>>

\* handleKeyDown without the test of value: a suggestion is accepted over a
\* committed value
AcceptKey_Unguarded(key) ==
    /\ key \in AcceptKeys
    /\ IF suggestion(ssItems, ssQuery) # null
       THEN /\ ssKeyEvent' = KeyEvent(key, TRUE)
            /\ ssValue' = suggestion(ssItems, ssQuery)
            /\ ssQuery' = getLabel(suggestion(ssItems, ssQuery))
            /\ ssIsOpen' = FALSE
       ELSE /\ ssKeyEvent' = KeyEvent(key, FALSE)
            /\ UNCHANGED <<ssValue, ssQuery, ssIsOpen>>
    /\ UNCHANGED <<ssItems, parseVars, matchVars, homeVars, roundVars>>

\* handleKeyDown for Enter or Tab, with acceptSuggestion
AcceptKey(key) ==
    /\ key \in AcceptKeys
    /\ IF suggestion(ssItems, ssQuery) # null /\ ssValue = null
       THEN /\ ssKeyEvent' = KeyEvent(key, TRUE)
            /\ ssValue' = suggestion(ssItems, ssQuery)
            /\ ssQuery' = getLabel(suggestion(ssItems, ssQuery))
            /\ ssIsOpen' = FALSE
       ELSE /\ ssKeyEvent' = KeyEvent(key, FALSE)
            /\ UNCHANGED <<ssValue, ssQuery, ssIsOpen>>
    /\ UNCHANGED <<ssItems, parseVars, matchVars, homeVars, roundVars>>

\* handleKeyDown for ArrowUp or ArrowDown: with the dropdown closed the key
\* is handed to onArrowNavigation, which BookingRow always passes
ArrowKey(key) ==
    /\ key \in ArrowKeys
    /\ ssKeyEvent' = KeyEvent(key, ~ssIsOpen)
    /\ UNCHANGED <<ssItems, ssValue, ssQuery, ssIsOpen, parseVars, matchVars, homeVars, roundVars>>

\* onMouseDown of a dropdown row without setIsOpen(false)
ClickItem_StaysOpen(i) ==
    /\ ssIsOpen
    /\ i \in 1..Len(filteredItems(ssItems, ssQuery))
    /\ ssValue' = filteredItems(ssItems, ssQuery)[i]
    /\ ssQuery' = getLabel(filteredItems(ssItems, ssQuery)[i])
    /\ ssIsOpen' = ssIsOpen
    /\ ssKeyEvent' = null
    /\ UNCHANGED <<ssItems, parseVars, matchVars, homeVars, roundVars>>

\* onMouseDown of the i-th row of the dropdown
ClickItem(i) ==
    /\ ssIsOpen
    /\ i \in 1..Len(filteredItems(ssItems, ssQuery))
    /\ ssValue' = filteredItems(ssItems, ssQuery)[i]
    /\ ssQuery' = getLabel(filteredItems(ssItems, ssQuery)[i])
    /\ ssIsOpen' = FALSE
    /\ ssKeyEvent' = null
    /\ UNCHANGED <<ssItems, parseVars, matchVars, homeVars, roundVars>>

\* the parent renders for a reason of its own (another field of the row was
\* edited, the day or the booking list changed): getLabel is a new function,
\* so the effect on [value, getLabel] runs
ParentRender ==
    /\ ssQuery' = valueSyncEffect(ssValue)
    /\ ssKeyEvent' = null
    /\ UNCHANGED <<ssItems, ssValue, ssIsOpen, parseVars, matchVars, homeVars, roundVars>>

SelectNext ==
    \/ \E t \in TypedTexts : ChangeText(t)
    \/ ClickInput
    \/ CloseDropdown
    \/ \E key \in AcceptKeys : AcceptKey(key)
    \/ \E key \in ArrowKeys : ArrowKey(key)
    \/ \E i \in 1..Len(ssItems) : ClickItem(i)
    \/ ParentRender

SpecSelect == SelectInit /\ [][SelectNext]_vars

(***************************************************************************)
(* Claims about the SearchSelect.                                          *)
(***************************************************************************)
\* the item of mockProjects with the given id
ProjectById(id) == CHOOSE p \in Range(mockProjects) : p.id = id

Anthropic == ProjectById("1")

Stripe == ProjectById("3")

QueryAp == <<"a", "p">>

\* C6 (as stated): "ap" matches "Anthropic" and also "Stripe", so filtering
\* the project list by "ap" keeps Anthropic and Stripe, in that order.
C6_ApKeepsAnthropicAndStripe ==
    (ssItems = mockProjects /\ ssQuery = QueryAp) =>
        /\ fuzzyMatch(getLabel(Anthropic), ssQuery)
        /\ fuzzyMatch(getLabel(Stripe), ssQuery)
        /\ filteredItems(ssItems, ssQuery) = <<Anthropic, Stripe>>

\* C6 (amended): "ap" matches "Anthropic" and does not match "Stripe", which
\* has no 'a'; filtering the project list by "ap" keeps Anthropic alone.
C6_ApKeepsAnthropicOnly ==
    (ssItems = mockProjects /\ ssQuery = QueryAp) =>
        /\ fuzzyMatch(getLabel(Anthropic), ssQuery)
        /\ ~fuzzyMatch(getLabel(Stripe), ssQuery)
        /\ filteredItems(ssItems, ssQuery) = <<Anthropic>>

C6_Witness == ssItems = mockProjects /\ ssQuery = QueryAp /\ ssIsOpen

\* the positions of the items whose label passes fuzzyMatch
Matching(items, query) ==
    {i \in 1..Len(items) : fuzzyMatch(getLabel(items[i]), query)}

\* the k-th smallest element of the set of positions M
Kth(M, k) == CHOOSE i \in M : Cardinality({j \in M : j < i}) = k - 1

\* C8: the filtered list is the whole item list for the empty query, and
\* otherwise exactly the items whose label passes fuzzyMatch, each once and
\* in input order (the empty list when nothing matches).
C8_FilterPreservesOrder ==
    LET filtered == filteredItems(ssItems, ssQuery)
        M        == Matching(ssItems, ssQuery)
    IN  /\ ssQuery = << >> => filtered = ssItems
        /\ ssQuery # << >> =>
               /\ Len(filtered) = Cardinality(M)
               /\ \A k \in 1..Len(filtered) : filtered[k] = ssItems[Kth(M, k)]

\* two of the projects match, the first of them is not a prefix match
C8_Witness ==
    /\ ssItems = mockProjects
    /\ ssQuery = <<"a">>
    /\ Len(filteredItems(ssItems, ssQuery)) = 3

\* C9: the suggestion is none when the query is empty or nothing matches, and
\* otherwise the first item in input order whose label fuzzy-matches, also
\* when a later item matches as a literal prefix.
C9_SuggestionIsFirstMatch ==
    LET M == Matching(ssItems, ssQuery)
    IN  IF ssQuery = << >> \/ M = {}
        THEN suggestion(ssItems, ssQuery) = null
        ELSE /\ suggestion(ssItems, ssQuery) = ssItems[Kth(M, 1)]
             /\ suggestion(ssItems, ssQuery) = filteredItems(ssItems, ssQuery)[1]

\* "l": Vercel is suggested although Linear, further down, starts with "l"
C9_Witness ==
    /\ ssItems = mockProjects
    /\ ssQuery = <<"l">>
    /\ suggestion(ssItems, ssQuery) = ProjectById("2")
    /\ startsWith(toLowerCase(getLabel(ProjectById("4"))), ssQuery)

\* the letters of s with upper case folded to lower case, position by position
Folded(s) ==
    [i \in 1..Len(s) |->
        IF \E k \in 1..Len(UpperCase) : UpperCase[k] = s[i]
        THEN LowerCase[CHOOSE k \in 1..Len(UpperCase) : UpperCase[k] = s[i]]
        ELSE s[i]]

\* C10: inline completion text is produced only for a non-empty query that
\* is a literal prefix, up to letter case, of the suggestion's label; it is
\* then the label without its first query.length characters, so that the
\* query followed by the completion is the label up to letter case.
C10_InlineCompletionIsPrefixRemainder ==
    LET done  == inlineCompletion(ssItems, ssQuery, ssValue)
        label == getLabel(suggestion(ssItems, ssQuery))
    IN  done # null =>
            /\ ssQuery # << >>
            /\ suggestion(ssItems, ssQuery) # null
            /\ Len(ssQuery) <= Len(label)
            /\ \A i \in 1..Len(ssQuery) : Folded(ssQuery)[i] = Folded(label)[i]
            /\ Len(done[1]) = Len(label) - Len(ssQuery)
            /\ \A i \in 1..Len(done[1]) : done[1][i] = label[Len(ssQuery) + i]
            /\ Folded(ssQuery \o done[1]) = Folded(label)

C10_Witness ==
    /\ ssItems = mockProjects
    /\ ssQuery = <<"s", "t", "r">>
    /\ inlineCompletion(ssItems, ssQuery, ssValue) = Some(<<"i", "p", "e">>)

(***************************************************************************)
(* Home and BookingRow (page.tsx).                                         *)
(*                                                                         *)
(* A Date is the number of its calendar day, day 0 being the Monday of the *)
(* week in which the page is first rendered; the browser's time zone is    *)
(* UTC, so that the local day and the day of toISOString agree.  The date  *)
(* string of a booking is <<day>>, and the placeholder "" is << >>.        *)
(***************************************************************************)
\* Date.prototype.getDay: 0 is Sunday
getDay(date) == (date + 1) % 7

formatDate(date) == <<date>>

\* getStartOfWeek with diff = day: the week starts on Sunday
getStartOfWeek_SundayStart(date) ==
    LET day  == getDay(date)
        diff == day
    IN  date - diff

getStartOfWeek(date) ==
    LET day  == getDay(date)
        diff == IF day = 0 THEN 6 ELSE day - 1
    IN  date - diff

getWeekDays(startOfWeek) == [i \in 1..7 |-> startOfWeek + (i - 1)]

\* isWeekend without the Sunday
isWeekend_SaturdayOnly(date) == getDay(date) = 6

isWeekend(date) == getDay(date) = 0 \/ getDay(date) = 6

\* the while loop of goToPreviousDay
RECURSIVE skipWeekendBack(_)
skipWeekendBack(prev) ==
    IF isWeekend(prev) THEN skipWeekendBack(prev - 1) ELSE prev

\* the while loop of goToNextDay
RECURSIVE skipWeekendForward(_)
skipWeekendForward(next) ==
    IF isWeekend(next) THEN skipWeekendForward(next + 1) ELSE next

Booking(id, date, projectId, phaseId, duration, text) ==
    [id |-> id, date |-> date, projectId |-> projectId, phaseId |-> phaseId,
     duration |-> duration, description |-> text]

generateMockBookings(today) ==
    LET startOfWeek == getStartOfWeek(today)
        monday      == startOfWeek
        tuesday     == startOfWeek + 1
        wednesday   == startOfWeek + 2
        thursday    == startOfWeek + 3
    IN  << Booking("mock-1", formatDate(monday), "1", "1-1", 240, "Feature development"),
           Booking("mock-2", formatDate(monday), "1", "1-2", 120, "Design review meeting"),
           Booking("mock-3", formatDate(monday), "2", "2-1", 120, "Bug fixes"),
           Booking("mock-4", formatDate(tuesday), "3", "3-1", 180, "API integration"),
           Booking("mock-5", formatDate(tuesday), "1", "1-3", 180, "Testing"),
           Booking("mock-6", formatDate(wednesday), "4", "4-1", 300, "Feature work"),
           Booking("mock-7", formatDate(wednesday), "4", "4-2", 180, "Bug fixes"),
           Booking("mock-8", formatDate(thursday), "5", "5-1", 120, "Design system work") >>

\* Array.prototype.findIndex for "the id is id", counting from 1; 0 for -1
findIndexById(list, id) ==
    IF \E i \in 1..Len(list) : list[i].id = id
    THEN CHOOSE i \in 1..Len(list) :
             /\ list[i].id = id
             /\ \A j \in 1..(i - 1) : list[j].id # id
    ELSE 0

\* list.find((p) => p.id === id) ?? null
findById(list, id) ==
    IF findIndexById(list, id) = 0 THEN null ELSE list[findIndexById(list, id)]

\* bookings.filter((b) => b.date === dateStr)
todaysBookings(list, dateStr) == SelectSeq(list, LAMBDA b : b.date = dateStr)

\* handleSaveBooking without the findIndex: every booking is appended
handleSaveBooking_AlwaysAppend(prev, booking, dateStr) ==
    Append(prev, [booking EXCEPT !.date = dateStr])

handleSaveBooking(prev, booking, dateStr) ==
    LET existingIndex == findIndexById(prev, booking.id)
    IN  IF existingIndex >= 1
        THEN [prev EXCEPT ![existingIndex] =
                 [booking EXCEPT !.date = prev[existingIndex].date]]
        ELSE Append(prev, [booking EXCEPT !.date = dateStr])

\* handleDeleteBooking with prev.slice(0, index): the bookings behind the
\* deleted one go as well
handleDeleteBooking_Truncate(prev, id) ==
    IF findIndexById(prev, id) = 0 THEN prev
    ELSE SubSeq(prev, 1, findIndexById(prev, id) - 1)

handleDeleteBooking(prev, id) == SelectSeq(prev, LAMBDA b : b.id # id)

\* the local state of a BookingRow
RowState(project, phase, time, text) ==
    [selectedProject |-> project, selectedPhase |-> phase,
     timeInput |-> time, description |-> text]

\* initialProject .. initialDescription, and the effect on [booking]
rowStateFor(booking) ==
    IF booking # null
    THEN RowState(findById(mockProjects, booking.projectId),
                  findById(getPhasesForProject(booking.projectId), booking.phaseId),
                  formatDuration(booking.duration),
                  booking.description)
    ELSE RowState(null, null, << >>, "")

\* const phases = selectedProject ? getPhasesForProject(selectedProject.id) : []
phases(project) ==
    IF project # null THEN getPhasesForProject(project.id) ELSE << >>

\* isValidDuration without the minimum of 15
isValidDuration_NotNull(parsedDuration) == parsedDuration # null

\* isValidDuration with "> 15"
isValidDuration_Above15(parsedDuration) ==
    parsedDuration # null /\ parsedDuration[1] > 15

isValidDuration(parsedDuration) ==
    parsedDuration # null /\ parsedDuration[1] >= 15

\* updatedBooking of saveBooking; id is booking?.id ?? crypto.randomUUID()
updatedBooking(booking, id, row) ==
    Booking(id,
            IF booking # null THEN booking.date ELSE << >>,
            row.selectedProject.id,
            row.selectedPhase.id,
            parseTimeInput(row.timeInput)[1],
            row.description)

\* the guard of saveBooking
canSave(row) ==
    /\ row.selectedProject # null
    /\ row.selectedPhase # null
    /\ isValidDuration(parseTimeInput(row.timeInput))

\* blurSaves without descriptionChanged
blurSaves_NoDescription(booking, row) ==
    /\ booking # null
    /\ row.selectedProject # null
    /\ row.selectedPhase # null
    /\ isValidDuration(parseTimeInput(row.timeInput))
    /\ \/ row.selectedProject.id # booking.projectId
       \/ row.selectedPhase.id # booking.phaseId
       \/ parseTimeInput(row.timeInput)[1] # booking.duration

\* the guard of handleBlur: an existing booking, valid data, something changed
blurSaves(booking, row) ==
    /\ booking # null
    /\ row.selectedProject # null
    /\ row.selectedPhase # null
    /\ isValidDuration(parseTimeInput(row.timeInput))
    /\ \/ row.selectedProject.id # booking.projectId
       \/ row.selectedPhase.id # booking.phaseId
       \/ parseTimeInput(row.timeInput)[1] # booking.duration
       \/ row.description # booking.description

(***************************************************************************)
(* Spec: the page, with the user working in one row (an existing booking's *)
(* row, or the add-new row) and navigating between days and weeks.         *)
(***************************************************************************)
\* what the user picks and types
PickedProjects == {mockProjects[1]}

PickedPhases == {mockPhases[1]}

TypedTimes == { << >>, <<"7">>, <<"x">>, <<"1", ".", "5", "h">> }

TypedDescriptions == {"", "note"}

\* the values crypto.randomUUID() returns
NewIds == {"uuid-1"}

MockIds == {b.id : b \in Range(generateMockBookings(0))}

Row == RowState(selectedProject, selectedPhase, timeInput, description)

\* the booking prop of the worked row; null for the add-new row and for a
\* row that is not rendered
workedBooking(list, date) ==
    findById(todaysBookings(list, formatDate(date)), worked)

\* the worked row is rendered
mounted(list, date) == worked = "new" \/ workedBooking(list, date) # null

\* the local state of a row that is not rendered
Unmounted == RowState(null, null, << >>, "")

SetRow(row) ==
    /\ selectedProject' = row.selectedProject
    /\ selectedPhase' = row.selectedPhase
    /\ timeInput' = row.timeInput
    /\ description' = row.description

HomeInit ==
    /\ ParseIdle
    /\ MatchIdle
    /\ SelectIdle
    /\ RoundIdle
    /\ selectedDate \in 0..6
    /\ bookings = generateMockBookings(selectedDate)
    /\ worked \in {"new"} \cup MockIds
    /\ LET row == IF mounted(bookings, selectedDate)
                  THEN rowStateFor(workedBooking(bookings, selectedDate))
                  ELSE Unmounted
       IN  /\ selectedProject = row.selectedProject
           /\ selectedPhase = row.selectedPhase
           /\ timeInput = row.timeInput
           /\ description = row.description
    /\ handlerRows = Len(todaysBookings(bookings, formatDate(selectedDate)))
    /\ homeKeyEvent = null
    /\ blurEvent = FALSE

\* project SearchSelect onChange without setSelectedPhase(null)
ChangeProject_KeepsPhase(project) ==
    /\ mounted(bookings, selectedDate)
    /\ selectedProject' = project
    /\ selectedPhase' = selectedPhase
    /\ UNCHANGED <<timeInput, description, bookings, selectedDate, worked>>
    /\ homeKeyEvent' = null
    /\ blurEvent' = FALSE
    /\ UNCHANGED <<handlerRows, parseVars, matchVars, selectVars, roundVars>>

\* project SearchSelect onChange
ChangeProject(project) ==
    /\ mounted(bookings, selectedDate)
    /\ selectedProject' = project
    /\ selectedPhase' = null
    /\ UNCHANGED <<timeInput, description, bookings, selectedDate, worked>>
    /\ homeKeyEvent' = null
    /\ blurEvent' = FALSE
    /\ UNCHANGED <<handlerRows, parseVars, matchVars, selectVars, roundVars>>

\* phase SearchSelect onChange; the select is disabled without a project
ChangePhase(phase) ==
    /\ mounted(bookings, selectedDate)
    /\ selectedProject # null
    /\ phase # null => phase \in Range(phases(selectedProject))
    /\ selectedPhase' = phase
    /\ UNCHANGED <<selectedProject, timeInput, description>>
    /\ UNCHANGED <<bookings, selectedDate, worked>>
    /\ homeKeyEvent' = null
    /\ blurEvent' = FALSE
    /\ UNCHANGED <<handlerRows, parseVars, matchVars, selectVars, roundVars>>

\* time input onChange
ChangeTime(t) ==
    /\ mounted(bookings, selectedDate)
    /\ timeInput' = t
    /\ UNCHANGED <<selectedProject, selectedPhase, description>>
    /\ UNCHANGED <<bookings, selectedDate, worked>>
    /\ homeKeyEvent' = null
    /\ blurEvent' = FALSE
    /\ UNCHANGED <<handlerRows, parseVars, matchVars, selectVars, roundVars>>

\* description input onChange
ChangeDescription(d) ==
    /\ mounted(bookings, selectedDate)
    /\ description' = d
    /\ UNCHANGED <<selectedProject, selectedPhase, timeInput>>
    /\ UNCHANGED <<bookings, selectedDate, worked>>
    /\ homeKeyEvent' = null
    /\ blurEvent' = FALSE
    /\ UNCHANGED <<handlerRows, parseVars, matchVars, selectVars, roundVars>>

\* handleBlur of the description or time input: saveBooking, onSave, and the
\* row's effect on [booking] once the parent has replaced the booking
BlurField ==
    /\ mounted(bookings, selectedDate)
    /\ LET booking == workedBooking(bookings, selectedDate)
       IN  IF blurSaves(booking, Row)
           THEN /\ bookings' = handleSaveBooking(bookings,
                                   updatedBooking(booking, booking.id, Row),
                                   formatDate(selectedDate))
                /\ SetRow(rowStateFor(workedBooking(bookings', selectedDate)))
           ELSE UNCHANGED <<bookings, rowVars>>
    /\ UNCHANGED <<selectedDate, worked>>
    /\ homeKeyEvent' = null
    /\ blurEvent' = TRUE
    /\ UNCHANGED <<handlerRows, parseVars, matchVars, selectVars, roundVars>>

\* handleSubmit of the add-new row: saveBooking, onSave, and the form reset
Submit ==
    /\ worked = "new"
    /\ IF canSave(Row)
       THEN \E id \in NewIds \ {b.id : b \in Range(bookings)} :
                /\ bookings' = handleSaveBooking(bookings,
                                   updatedBooking(null, id, Row),
                                   formatDate(selectedDate))
                /\ SetRow(RowState(null, null, << >>, ""))
       ELSE UNCHANGED <<bookings, rowVars>>
    /\ UNCHANGED <<selectedDate, worked>>
    /\ homeKeyEvent' = null
    /\ blurEvent' = FALSE
    /\ UNCHANGED <<handlerRows, parseVars, matchVars, selectVars, roundVars>>

\* the delete button of the worked row: onDelete(booking.id); the row goes
Delete ==
    /\ worked # "new"
    /\ mounted(bookings, selectedDate)
    /\ bookings' = handleDeleteBooking(bookings, worked)
    /\ SetRow(Unmounted)
    /\ UNCHANGED <<selectedDate, worked>>
    /\ homeKeyEvent' = null
    /\ blurEvent' = FALSE
    /\ UNCHANGED <<handlerRows, parseVars, matchVars, selectVars, roundVars>>

\* setSelectedDate(date): rows of the day left are unmounted, rows of the day
\* entered are mounted from their booking; the add-new row stays as it is.
\* The effect on [selectedDate] registers a new keydown handler, which sees
\* the todaysBookings of this render.  event is the shortcut key that made
\* the call, or null for a button.
SetSelectedDate(date, event) ==
    /\ date \in 0..(7 * MaxWeek + 6)
    /\ selectedDate' = date
    /\ handlerRows' = Len(todaysBookings(bookings, formatDate(date)))
    /\ homeKeyEvent' = event
    /\ blurEvent' = FALSE
    /\ IF formatDate(date) = formatDate(selectedDate) \/ worked = "new"
       THEN UNCHANGED rowVars
       ELSE IF mounted(bookings, date)
       THEN SetRow(rowStateFor(workedBooking(bookings, date)))
       ELSE SetRow(Unmounted)
    /\ UNCHANGED <<bookings, worked>>
    /\ UNCHANGED <<parseVars, matchVars, selectVars, roundVars>>

\* goToPreviousDay and goToNextDay, called by a button (event null) or by
\* the ArrowLeft and ArrowRight shortcuts
goToPreviousDay(event) ==
    SetSelectedDate(skipWeekendBack(selectedDate - 1), event)

goToNextDay(event) ==
    SetSelectedDate(skipWeekendForward(selectedDate + 1), event)

goToPreviousWeek == SetSelectedDate(selectedDate - 7, null)

goToNextWeek == SetSelectedDate(selectedDate + 7, null)

\* "Go to today", rendered when the week shown does not contain today; the
\* clock reads a day of the week the page was opened in
goToToday(now) ==
    /\ getStartOfWeek(selectedDate) # getStartOfWeek(now)
    /\ SetSelectedDate(now, null)

\* the button of the i-th day of the week shown
ClickDay(i) ==
    SetSelectedDate(getWeekDays(getStartOfWeek(selectedDate))[i], null)

\* the rows whose project field is registered in fieldRefs: one per booking
\* of the day, and the add-new row after them
fieldRefs(list, dateStr) == 0..Len(todaysBookings(list, dateStr))

\* focusField(rowIndex, FIELD_PROJECT): the row that receives the focus, or
\* null when no field is registered under the key
focusField(rowIndex, rows) == IF rowIndex \in rows THEN Some(rowIndex) ELSE null

\* a shortcut key the document handler acted on, and the row it focused
ShortcutEvent(key, focused) == [key |-> key, focused |-> focused]

ShortcutKeys == {"+", "ArrowDown", "ArrowUp", "ArrowLeft", "ArrowRight"}

\* e.target: the document body, an empty input or an input with content
Targets == {"body", "emptyInput", "filledInput"}

\* the keydown handler of the document, registered by the effect on
\* [selectedDate]; todaysBookings.length is the handler's handlerRows
handleKeyDown(key, target, defaultPrevented) ==
    IF defaultPrevented \/ target = "filledInput"
    THEN /\ blurEvent' = FALSE
         /\ homeKeyEvent' = null
         /\ UNCHANGED <<bookings, selectedDate, worked, rowVars, handlerRows>>
         /\ UNCHANGED <<parseVars, matchVars, selectVars, roundVars>>
    ELSE IF key = "+" \/ key = "ArrowUp"
    THEN /\ blurEvent' = FALSE
         /\ homeKeyEvent' = ShortcutEvent(key,
                 focusField(handlerRows, fieldRefs(bookings, formatDate(selectedDate))))
         /\ UNCHANGED <<bookings, selectedDate, worked, rowVars, handlerRows>>
         /\ UNCHANGED <<parseVars, matchVars, selectVars, roundVars>>
    ELSE IF key = "ArrowDown"
    THEN /\ blurEvent' = FALSE
         /\ homeKeyEvent' = ShortcutEvent(key,
                 focusField(0, fieldRefs(bookings, formatDate(selectedDate))))
         /\ UNCHANGED <<bookings, selectedDate, worked, rowVars, handlerRows>>
         /\ UNCHANGED <<parseVars, matchVars, selectVars, roundVars>>
    ELSE IF key = "ArrowLeft"
    THEN goToPreviousDay(ShortcutEvent(key, null))
    ELSE goToNextDay(ShortcutEvent(key, null))

Next ==
    \/ \E project \in PickedProjects \cup {null} : ChangeProject(project)
    \/ \E phase \in PickedPhases \cup {null} : ChangePhase(phase)
    \/ \E t \in TypedTimes : ChangeTime(t)
    \/ \E d \in TypedDescriptions : ChangeDescription(d)
    \/ BlurField
    \/ Submit
    \/ Delete
    \/ goToPreviousDay(null)
    \/ goToNextDay(null)
    \/ goToPreviousWeek
    \/ goToNextWeek
    \/ \E now \in 0..6 : goToToday(now)
    \/ \E i \in 1..7 : ClickDay(i)

Spec == HomeInit /\ [][Next]_vars

(***************************************************************************)
(* SpecKeys: the page used with the shortcut keys.  The user fills the     *)
(* add-new row with one project, phase and time, submits and deletes, and  *)
(* moves between rows and days with the keys as well as with the buttons.  *)
(***************************************************************************)
KeysNext ==
    \/ \E project \in PickedProjects : ChangeProject(project)
    \/ \E phase \in PickedPhases : ChangePhase(phase)
    \/ ChangeTime(<<"1", ".", "5", "h">>)
    \/ Submit
    \/ Delete
    \/ goToPreviousDay(null)
    \/ goToNextDay(null)
    \/ goToPreviousWeek
    \/ goToNextWeek
    \/ \E now \in 0..6 : goToToday(now)
    \/ \E i \in 1..7 : ClickDay(i)
    \/ \E key \in ShortcutKeys, target \in Targets, defaultPrevented \in BOOLEAN :
           handleKeyDown(key, target, defaultPrevented)

SpecKeys == HomeInit /\ [][KeysNext]_vars

(***************************************************************************)
(* Claims about the booking list.                                          *)
(***************************************************************************)
\* the time text of the worked row is unparsable or parses to less than 15
InvalidTimeText ==
    \/ parseTimeInput(timeInput) = null
    \/ parseTimeInput(timeInput)[1] < 15

\* C3: every stored booking has a duration that is a multiple of 15 and at
\* least 15, and a submit or auto-save (blur) whose time text is unparsable
\* or parses to less than 15 leaves the booking list unchanged.
C3_StoredDurationsValid ==
    /\ [](\A i \in 1..Len(bookings) :
             /\ bookings[i].duration % 15 = 0
             /\ bookings[i].duration >= 15)
    /\ [][(bookings' # bookings /\ InvalidTimeText) => ~(Submit \/ BlurField)]_vars

\* the user has added a booking of 90 minutes, and the add-new row now holds
\* a project, a phase and a time text that parses to 0
C3_Witness ==
    /\ worked = "new"
    /\ \E i \in 1..Len(bookings) :
           bookings[i].id \in NewIds /\ bookings[i].duration = 90
    /\ selectedProject # null
    /\ selectedPhase # null
    /\ timeInput = <<"7">>

(***************************************************************************)
(* Claims about the suggestion, the inline completion and the accept keys. *)
(***************************************************************************)
\* q is a literal prefix of label up to letter case
FoldedPrefix(q, label) ==
    /\ Len(q) <= Len(label)
    /\ \A i \in 1..Len(q) : Folded(q)[i] = Folded(label)[i]

\* the first item in input order whose label fuzzy-matches the query
FirstMatch(items, query) == items[Kth(Matching(items, query), 1)]

\* the query is not empty, something matches it, and the first match does
\* not start with it
FirstMatchIsNoPrefix ==
    /\ ssQuery # << >>
    /\ Matching(ssItems, ssQuery) # {}
    /\ ~FoldedPrefix(ssQuery, getLabel(FirstMatch(ssItems, ssQuery)))

\* the step is the handling of a keydown event of the given key
KeyStep(key) == ssKeyEvent' # null /\ ssKeyEvent'.key = key

\* C11: whenever the first fuzzy match is not a literal case-insensitive
\* prefix match of the query, no inline completion is shown, the suggestion
\* exists all the same, and Enter or Tab accepts it; for the project list
\* "rcl" suggests Vercel without completion and "str" suggests Stripe with
\* the completion "ipe".
C11_SuggestionWithoutCompletion ==
    /\ [](FirstMatchIsNoPrefix =>
             /\ inlineCompletion(ssItems, ssQuery, ssValue) = null
             /\ suggestion(ssItems, ssQuery) = FirstMatch(ssItems, ssQuery))
    /\ []((ssItems = mockProjects /\ ssQuery = <<"r", "c", "l">>) =>
             /\ suggestion(ssItems, ssQuery) = ProjectById("2")
             /\ inlineCompletion(ssItems, ssQuery, ssValue) = null)
    /\ []((ssItems = mockProjects /\ ssQuery = <<"s", "t", "r">>) =>
             /\ suggestion(ssItems, ssQuery) = Stripe
             /\ inlineCompletion(ssItems, ssQuery, ssValue) = Some(<<"i", "p", "e">>))
    /\ [][\A key \in AcceptKeys :
             (KeyStep(key) /\ FirstMatchIsNoPrefix) =>
                 /\ ssValue' = FirstMatch(ssItems, ssQuery)
                 /\ ssQuery' = getLabel(FirstMatch(ssItems, ssQuery))]_vars

\* "rcl" is typed into the project select: Vercel is suggested, nothing is
\* committed and no completion is shown
C11_Witness ==
    /\ ssItems = mockProjects
    /\ ssQuery = <<"r", "c", "l">>
    /\ ssValue = null
    /\ suggestion(ssItems, ssQuery) = ProjectById("2")
    /\ inlineCompletion(ssItems, ssQuery, ssValue) = null

\* an accept key is pressed while a suggestion exists and nothing is committed
AcceptLegal ==
    /\ ssValue = null
    /\ ssQuery # << >>
    /\ Matching(ssItems, ssQuery) # {}

\* C12: when Enter or Tab is pressed while a suggestion exists and no value
\* is committed, the key's default action is prevented, the suggestion
\* becomes the committed value, the query becomes the suggestion's label and
\* the dropdown is closed.
C12_AcceptCommitsSuggestion ==
    [][\A key \in AcceptKeys :
          (KeyStep(key) /\ AcceptLegal) =>
              /\ ssKeyEvent' = KeyEvent(key, TRUE)
              /\ ssValue' = FirstMatch(ssItems, ssQuery)
              /\ ssQuery' = getLabel(FirstMatch(ssItems, ssQuery))
              /\ ssIsOpen' = FALSE]_vars

\* Tab has just been pressed and its default action prevented: Vercel is
\* committed, its label is the query and the dropdown is closed
C12_Witness ==
    /\ ssItems = mockProjects
    /\ ssKeyEvent = KeyEvent("Tab", TRUE)
    /\ ssValue = ProjectById("2")
    /\ ssQuery = getLabel(ProjectById("2"))
    /\ ~ssIsOpen

\* C13: with a value committed, or with no suggestion (empty query or no
\* match), Enter or Tab changes neither the committed value nor the query
\* and does not prevent the key's default action; and a value an accept key
\* commits is the suggestion of the query as it is when the key is pressed.
C13_AcceptIsGuarded ==
    /\ [][\A key \in AcceptKeys :
             (KeyStep(key) /\ ~AcceptLegal) =>
                 /\ ssValue' = ssValue
                 /\ ssQuery' = ssQuery
                 /\ ssKeyEvent' = KeyEvent(key, FALSE)]_vars
    /\ [][\A key \in AcceptKeys :
             (KeyStep(key) /\ ssValue' # ssValue) =>
                 /\ ssQuery # << >>
                 /\ Matching(ssItems, ssQuery) # {}
                 /\ ssValue' = FirstMatch(ssItems, ssQuery)]_vars

\* Enter has just been pressed on a committed value for whose label a
\* suggestion exists, and its default action was not prevented
C13_Witness ==
    /\ ssKeyEvent = KeyEvent("Enter", FALSE)
    /\ ssValue # null
    /\ suggestion(ssItems, ssQuery) # null

(***************************************************************************)
(* Claims about the notations of the duration parser.  The value a text    *)
(* denotes is read here from its characters, position by position.         *)
(***************************************************************************)
Parsed == parseStep \in {"parsed", "shown", "reparsed"}

DigitOf(c) == CHOOSE d \in 0..9 : Digits[d + 1] = c

\* the number the digits of s write in base ten; 0 for no digits
RECURSIVE Positional(_, _)
Positional(s, i) ==
    IF i > Len(s) THEN 0
    ELSE DigitOf(s[i]) * Pow10(Len(s) - i) + Positional(s, i + 1)

Decimal(s) == Positional(s, 1)

ColonAt(t) == CHOOSE i \in 1..Len(t) : t[i] = ":"

PointAt(a) == CHOOSE j \in 1..Len(a) : a[j] = "."

\* the fraction a number text (digits, or digits '.' digits) writes
NumberValue(a) ==
    IF AllDigits(a) THEN Num(Decimal(a), 1)
    ELSE LET j == PointAt(a)
             k == Len(a) - j
         IN  Num(Decimal(SubSeq(a, 1, j - 1)) * Pow10(k)
                     + Decimal(SubSeq(a, j + 1, Len(a))), Pow10(k))

\* t without its unit letter and without the white space before the letter
NumberPart(t) ==
    SubSeq(t, 1, CHOOSE i \in 0..(Len(t) - 1) :
                    /\ i > 0 => t[i] \notin WhiteSpace
                    /\ \A j \in (i + 1)..(Len(t) - 1) : t[j] \in WhiteSpace)

\* r is the multiple of 15 nearest to the fraction v, the larger one of two
\* that are equally near
Nearest15(v, r) ==
    /\ r \in Nat
    /\ r % 15 = 0
    /\ (2 * r - 15) * v.den <= 2 * v.num
    /\ 2 * v.num < (2 * r + 15) * v.den

\* the parser's result is the fraction v rounded to the nearest 15
ParsedAs(v) == parsedMinutes # null /\ Nearest15(v, parsedMinutes[1])

\* C14: for input H:M with one or more hour digits and one or two minute
\* digits, the result is unparsable when the minute component is 60 or more
\* and otherwise hours*60 + minutes rounded to the nearest multiple of 15;
\* "2:75" is unparsable and "2:30" is 150.
C14_ColonFormat ==
    Parsed =>
        /\ ColonShape(Trimmed) =>
               LET hours == Decimal(SubSeq(Trimmed, 1, ColonAt(Trimmed) - 1))
                   mins  == Decimal(SubSeq(Trimmed, ColonAt(Trimmed) + 1, Len(Trimmed)))
               IN  IF mins >= 60 THEN parsedMinutes = null
                   ELSE ParsedAs(Num(hours * 60 + mins, 1))
        /\ timeText = <<"2", ":", "7", "5">> => parsedMinutes = null
        /\ timeText = <<"2", ":", "3", "0">> => parsedMinutes = Some(150)

C14_Witness ==
    /\ parseStep = "parsed"
    /\ timeText = <<"2", ":", "7", "5">>
    /\ parsedMinutes = null

\* C15: a bare integer n and the same integer with a minute suffix are both
\* read as minutes: parseTimeInput("n") = parseTimeInput("nm") = n rounded
\* to the nearest multiple of 15, so that "1" is one minute.
C15_IntegerIsMinutes ==
    Parsed =>
        /\ AllDigits(Trimmed) =>
               /\ ParsedAs(Num(Decimal(Trimmed), 1))
               /\ parseTimeInput(Trimmed \o <<"m">>) = parsedMinutes
        /\ (UnitShape(Trimmed, "m", TRUE)) =>
               /\ ParsedAs(Num(Decimal(NumberPart(Trimmed)), 1))
               /\ parseTimeInput(NumberPart(Trimmed)) = parsedMinutes
        /\ timeText = <<"1">> => parsedMinutes = Some(0)

C15_Witness ==
    /\ parseStep = "parsed"
    /\ timeText = <<"3", "0", "m">>
    /\ parsedMinutes = Some(30)
    /\ parseTimeInput(<<"3", "0">>) = Some(30)

\* C16: a bare decimal d, written with a decimal point, and the same decimal
\* with an hour suffix are both read as hours: parseTimeInput("d") =
\* parseTimeInput("dh") = d*60 rounded to the nearest multiple of 15 ("1.5"
\* and "1.5h" both give 90), and an integer n with an hour suffix gives n*60.
C16_DecimalIsHours ==
    Parsed =>
        /\ DecimalShape(Trimmed) =>
               /\ ParsedAs(Times(NumberValue(Trimmed), 60))
               /\ parseTimeInput(Trimmed \o <<"h">>) = parsedMinutes
        /\ (UnitShape(Trimmed, "h", TRUE) /\ DecimalShape(NumberPart(Trimmed))) =>
               /\ ParsedAs(Times(NumberValue(NumberPart(Trimmed)), 60))
               /\ parseTimeInput(NumberPart(Trimmed)) = parsedMinutes
        /\ (UnitShape(Trimmed, "h", TRUE) /\ AllDigits(NumberPart(Trimmed))) =>
               parsedMinutes = Some(Decimal(NumberPart(Trimmed)) * 60)
        /\ timeText \in {<<"1", ".", "5">>, <<"1", ".", "5", "h">>} =>
               parsedMinutes = Some(90)

C16_Witness ==
    /\ parseStep = "parsed"
    /\ timeText = <<".", "5">>
    /\ parsedMinutes = Some(30)
    /\ parseTimeInput(<<".", "5", "h">>) = Some(30)

\* the text is one of the five notations and, in the colon notation, its
\* minute component is below 60
WellFormed(t) ==
    /\ KnownShape(t, FALSE)
    /\ ColonShape(t) => Decimal(SubSeq(t, ColonAt(t) + 1, Len(t))) < 60

\* the raw minute value a well-formed text denotes
RawValue(t) ==
    IF ColonShape(t)
    THEN Num(Decimal(SubSeq(t, 1, ColonAt(t) - 1)) * 60
                 + Decimal(SubSeq(t, ColonAt(t) + 1, Len(t))), 1)
    ELSE IF UnitShape(t, "h", FALSE) THEN Times(NumberValue(NumberPart(t)), 60)
    ELSE IF UnitShape(t, "m", FALSE) THEN Num(Decimal(NumberPart(t)), 1)
    ELSE IF AllDigits(t) THEN Num(Decimal(t), 1)
    ELSE Times(NumberValue(t), 60)

\* C18: failure is a value, never an exception: an input that is empty or
\* only white space yields null, not 0; every other malformed input, such as
\* "abc", yields null as well; and parseTimeInput returns, with null or a
\* number, for every input.
C18_FailureIsNull ==
    /\ parseStep = "input" =>
           LET result == parseTimeInput(timeText)
           IN  result = null \/ (Len(result) = 1 /\ result[1] \in Nat)
    /\ Parsed =>
           /\ Blank(timeText) => parsedMinutes = null
           /\ ~WellFormed(Trimmed) => parsedMinutes = null
           /\ timeText = <<"a", "b", "c">> => parsedMinutes = null
           /\ \/ parsedMinutes = null
              \/ Len(parsedMinutes) = 1 /\ parsedMinutes[1] \in Nat

C18_Witness ==
    /\ parseStep = "parsed"
    /\ timeText = <<" ", "\t", "\n">>
    /\ parsedMinutes = null

\* C19: the parser reports small values and does not reject them: every
\* well-formed input whose raw value rounds below 15 ("0", "7", "0:05",
\* "0.1h") returns the number 0, not null; the minimum is enforced by
\* isValidDuration alone, which is false for exactly the results null and 0.
C19_SmallValuesAreReported ==
    Parsed =>
        /\ (WellFormed(Trimmed) /\ 2 * RawValue(Trimmed).num < 15 * RawValue(Trimmed).den) =>
               parsedMinutes = Some(0)
        /\ (parsedMinutes # null /\ parsedMinutes[1] < 15) => parsedMinutes = Some(0)
        /\ timeText \in { <<"0">>, <<"7">>, <<"0", ":", "0", "5">>, <<"0", ".", "1", "h">> } =>
               parsedMinutes = Some(0)
        /\ isValidDuration(parsedMinutes) <=> parsedMinutes \notin {null, Some(0)}

C19_Witness ==
    /\ parseStep = "parsed"
    /\ timeText = <<"0", ":", "0", "5">>
    /\ parsedMinutes = Some(0)
    /\ ~isValidDuration(parsedMinutes)

\* C20: the example inputs parse to the stated values: "30" -> 30,
\* "30m" -> 30, "1h" -> 60, "1.5h" -> 90, "2:30" -> 150, "0.5" -> 30.
C20_StatedExamples ==
    Parsed =>
        /\ timeText = <<"3", "0">> => parsedMinutes = Some(30)
        /\ timeText = <<"3", "0", "m">> => parsedMinutes = Some(30)
        /\ timeText = <<"1", "h">> => parsedMinutes = Some(60)
        /\ timeText = <<"1", ".", "5", "h">> => parsedMinutes = Some(90)
        /\ timeText = <<"2", ":", "3", "0">> => parsedMinutes = Some(150)
        /\ timeText = <<"0", ".", "5">> => parsedMinutes = Some(30)

C20_Witness ==
    /\ parseStep = "parsed"
    /\ timeText = <<"1", ".", "5", "h">>
    /\ parsedMinutes = Some(90)

(***************************************************************************)
(* SpecRound: one call of roundTo15 on a drawn minute value.  The values   *)
(* are fractions: whole minutes, and the halves and fifths of a minute     *)
(* that hours * 60 yields for hour texts with decimals.                    *)
(***************************************************************************)
RawDens == {1, 2, 5}

\* hours * 60 for the hour text "0.125"
EighthOfAnHour == Times(parseFloat(<<"0", ".", "1", "2", "5">>), 60)

RawValues == {Num(n, d) : n \in 0..MaxRaw, d \in RawDens} \cup {EighthOfAnHour}

RoundInit ==
    /\ ParseIdle
    /\ MatchIdle
    /\ SelectIdle
    /\ HomeIdle
    /\ rawMinutes \in RawValues
    /\ roundedMinutes = null
    /\ roundStep = "input"

Round ==
    /\ roundStep = "input"
    /\ roundedMinutes' = Some(roundTo15(rawMinutes))
    /\ roundStep' = "rounded"
    /\ UNCHANGED <<rawMinutes, parseVars, matchVars, selectVars, homeVars>>

RoundNext == Round

SpecRound == RoundInit /\ [][RoundNext]_vars

(***************************************************************************)
(* Claims about roundTo15.                                                 *)
(***************************************************************************)
Abs(n) == IF n < 0 THEN 0 - n ELSE n

\* the fraction v lies exactly halfway between two multiples of 15
Halfway(v) ==
    /\ (2 * v.num) % (15 * v.den) = 0
    /\ ((2 * v.num) \div (15 * v.den)) % 2 = 1

\* C17: for every non-negative raw minute value v, roundTo15(v) is the
\* multiple of 15 nearest to v, it differs from v by at most 7.5, and a value
\* exactly halfway between two multiples (7.5, 22.5, ...; "0.125h" is 7.5)
\* rounds to the larger one.
C17_RoundsToNearestHalfUp ==
    roundStep = "rounded" =>
        LET v == rawMinutes
            r == roundedMinutes[1]
        IN  /\ r \in Nat
            /\ r % 15 = 0
            /\ 2 * Abs(r * v.den - v.num) <= 15 * v.den
            /\ \A k \in 0..(MaxRaw \div 15 + 1) :
                   Abs(r * v.den - v.num) <= Abs(15 * k * v.den - v.num)
            /\ Halfway(v) => r * v.den > v.num
            /\ v = EighthOfAnHour => r = 15

\* 22.5 has been rounded, to 30
C17_Witness ==
    /\ roundStep = "rounded"
    /\ rawMinutes = Num(45, 2)
    /\ Halfway(rawMinutes)
    /\ roundedMinutes = Some(30)

(***************************************************************************)
(* The five patterns of parseTimeInput, taken together.                    *)
(***************************************************************************)
\* the patterns that match t, by the name of their constant in the code
MatchingPatterns(t) ==
    {name \in {"colonMatch", "hourMatch", "minMatch", "plainMatch", "decimalMatch"} :
        \/ name = "colonMatch" /\ colonMatch(t) # null
        \/ name = "hourMatch" /\ hourMatch(t) # null
        \/ name = "minMatch" /\ minMatch(t) # null
        \/ name = "plainMatch" /\ plainMatch(t) # null
        \/ name = "decimalMatch" /\ decimalMatch(t) # null}

\* what the branch of one pattern returns for a text the pattern matches
BranchResult(name, t) ==
    IF name = "colonMatch"
    THEN IF parseInt(colonMatch(t)[2]) >= 60 THEN null
         ELSE Some(roundTo15(Whole(parseInt(colonMatch(t)[1]) * 60
                                   + parseInt(colonMatch(t)[2]))))
    ELSE IF name = "hourMatch"
    THEN Some(roundTo15(Times(parseFloat(hourMatch(t)[1]), 60)))
    ELSE IF name = "minMatch"
    THEN Some(roundTo15(Whole(parseInt(minMatch(t)[1]))))
    ELSE IF name = "plainMatch"
    THEN Some(roundTo15(Whole(parseInt(plainMatch(t)[1]))))
    ELSE Some(roundTo15(Times(parseFloat(decimalMatch(t)[1]), 60)))

\* C21: the trimmed, lower-cased input matches at most one of the colon,
\* hour-suffix, minute-suffix, bare-integer and bare-decimal patterns, so the
\* result is the result of the branch of any pattern that matches, whatever
\* the order the patterns are tried in, and null when none matches.
C21_PatternsAreExclusive ==
    parseStep = "parsed" =>
        /\ Cardinality(MatchingPatterns(Trimmed)) <= 1
        /\ \A name \in MatchingPatterns(Trimmed) :
               parsedMinutes = BranchResult(name, Trimmed)
        /\ MatchingPatterns(Trimmed) = {} => parsedMinutes = null

C21_Witness ==
    /\ parseStep = "parsed"
    /\ timeText = <<"2", ":", "3", "0">>
    /\ MatchingPatterns(Trimmed) = {"colonMatch"}
    /\ parsedMinutes = Some(150)

(***************************************************************************)
(* The week shown.                                                         *)
(***************************************************************************)
\* C22: weeks start on Monday: the start of the week of the selected date is
\* a Monday, on the date or at most 6 days before it, and the week days are
\* the 7 consecutive days Monday .. Sunday from it, the selected date among
\* them.
C22_WeeksStartOnMonday ==
    LET startOfWeek == getStartOfWeek(selectedDate)
        weekDays    == getWeekDays(startOfWeek)
    IN  /\ getDay(startOfWeek) = 1
        /\ startOfWeek <= selectedDate
        /\ selectedDate - startOfWeek <= 6
        /\ Len(weekDays) = 7
        /\ \A i \in 1..7 : weekDays[i] = startOfWeek + (i - 1)
        /\ \A i \in 1..7 : getDay(weekDays[i]) = i % 7
        /\ \E i \in 1..7 : weekDays[i] = selectedDate

\* a Sunday of the second week: its week started six days before
C22_Witness ==
    /\ getDay(selectedDate) = 0
    /\ getStartOfWeek(selectedDate) = selectedDate - 6
    /\ getStartOfWeek(selectedDate) = 7
    /\ getWeekDays(getStartOfWeek(selectedDate))[7] = selectedDate

(***************************************************************************)
(* The shortcut keys of the page.                                          *)
(***************************************************************************)
\* the index of the add-new row: the number of bookings shown for the day
AddNewRow == Len(todaysBookings(bookings, formatDate(selectedDate)))

\* C23: after any sequence of adding and deleting bookings on the selected
\* day, '+' (or ArrowUp outside a non-empty input) focuses the project field
\* of the add-new row, the row whose index is the current number of bookings
\* shown for the selected day.
C23_PlusFocusesAddNewRow ==
    (homeKeyEvent # null /\ homeKeyEvent.key \in {"+", "ArrowUp"}) =>
        homeKeyEvent.focused = Some(AddNewRow)

\* Saturday is day 6 of Date.prototype.getDay and Sunday day 0
SaturdayOrSunday(date) == getDay(date) \in {0, 6}

\* the days strictly after, and strictly before, a date that are no weekend
WorkdaysAfter(date) == {d \in (date + 1)..(date + 3) : ~SaturdayOrSunday(d)}

WorkdaysBefore(date) == {d \in (date - 3)..(date - 1) : ~SaturdayOrSunday(d)}

\* C24: day navigation skips weekends: goToNextDay selects the first day
\* strictly after the selected date that is not a Saturday or Sunday,
\* goToPreviousDay the last such day strictly before it; the loop takes at
\* most two steps beyond the first one, and the date selected is no weekend
\* day.
C24_DayNavigationSkipsWeekends ==
    [][(homeKeyEvent' # null /\ homeKeyEvent'.key \in {"ArrowLeft", "ArrowRight"}) =>
          /\ ~SaturdayOrSunday(selectedDate')
          /\ homeKeyEvent'.key = "ArrowRight" =>
                /\ selectedDate' \in WorkdaysAfter(selectedDate)
                /\ \A d \in WorkdaysAfter(selectedDate) : selectedDate' <= d
                /\ selectedDate' - (selectedDate + 1) <= 2
                /\ selectedDate' = skipWeekendForward(selectedDate + 1)
          /\ homeKeyEvent'.key = "ArrowLeft" =>
                /\ selectedDate' \in WorkdaysBefore(selectedDate)
                /\ \A d \in WorkdaysBefore(selectedDate) : d <= selectedDate'
                /\ (selectedDate - 1) - selectedDate' <= 2
                /\ selectedDate' = skipWeekendBack(selectedDate - 1)]_vars

\* ArrowRight on a Friday has selected the Monday after it
C24_Witness ==
    /\ homeKeyEvent # null
    /\ homeKeyEvent.key = "ArrowRight"
    /\ selectedDate = 7

(***************************************************************************)
(* The booking list.                                                       *)
(***************************************************************************)
\* the ids of a booking list
Ids(list) == {list[i].id : i \in 1..Len(list)}

\* C25: a save changes exactly one entry.  A booking whose id is in the list
\* is replaced in place: it keeps its date and its position, the length and
\* all other bookings are unchanged.  Any other booking is appended at the
\* end with the selected date, and the bookings before it are unchanged.
\* (A step that changes the list without shortening it is a save.)
C25_SaveChangesOneEntry ==
    [][(bookings' # bookings /\ Len(bookings') >= Len(bookings)) =>
          IF worked \in Ids(bookings)
          THEN /\ Len(bookings') = Len(bookings)
               /\ \E i \in 1..Len(bookings) :
                     /\ bookings[i].id = worked
                     /\ bookings'[i].id = worked
                     /\ bookings'[i].date = bookings[i].date
                     /\ \A j \in 1..Len(bookings) \ {i} : bookings'[j] = bookings[j]
          ELSE /\ Len(bookings') = Len(bookings) + 1
               /\ SubSeq(bookings', 1, Len(bookings)) = bookings
               /\ bookings'[Len(bookings')].id \notin Ids(bookings)
               /\ bookings'[Len(bookings')].date = formatDate(selectedDate)]_vars

\* a booking was added on the Tuesday of the second week, behind the eight
\* bookings the page started with
C25_Witness ==
    /\ Len(bookings) = 9
    /\ SubSeq(bookings, 1, 8) = generateMockBookings(0)
    /\ bookings[9].id \in NewIds
    /\ bookings[9].date = formatDate(8)
    /\ selectedDate = 8

\* list without its i-th entry
WithoutEntry(list, i) == SubSeq(list, 1, i - 1) \o SubSeq(list, i + 1, Len(list))

\* the positions of the bookings of list with the id
PositionsOf(list, id) == {i \in 1..Len(list) : list[i].id = id}

\* C26: handleDeleteBooking(id) removes exactly the booking with that id and
\* leaves every other booking present, unchanged and in the same order; for
\* an id that is not in the list the list is unchanged.  This holds for the
\* function on every list the page reaches, and for the step the delete
\* button takes.
C26_DeleteRemovesThatBooking ==
    /\ [](\A id \in MockIds \cup NewIds :
             IF PositionsOf(bookings, id) = {}
             THEN handleDeleteBooking(bookings, id) = bookings
             ELSE \E i \in PositionsOf(bookings, id) :
                     /\ PositionsOf(bookings, id) = {i}
                     /\ handleDeleteBooking(bookings, id) = WithoutEntry(bookings, i))
    /\ [][Len(bookings') < Len(bookings) =>
             \E i \in PositionsOf(bookings, worked) :
                 bookings' = WithoutEntry(bookings, i)]_vars

\* the second booking of the Monday was deleted; the third took its place
C26_Witness ==
    /\ worked = "mock-2"
    /\ PositionsOf(bookings, worked) = {}
    /\ Len(bookings) = 7
    /\ bookings[1].id = "mock-1"
    /\ bookings[2].id = "mock-3"
    /\ bookings[7].id = "mock-8"

(***************************************************************************)
(* The worked row and the booking list.                                    *)
(***************************************************************************)
\* the row's three required fields are valid
RowIsValid ==
    /\ selectedProject # null
    /\ selectedPhase # null
    /\ parseTimeInput(timeInput) # null
    /\ parseTimeInput(timeInput)[1] >= 15

\* one of the row's four fields differs from the stored booking
RowDiffersFrom(booking) ==
    \/ selectedProject.id # booking.projectId
    \/ selectedPhase.id # booking.phaseId
    \/ parseTimeInput(timeInput)[1] # booking.duration
    \/ description # booking.description

\* C27: blurring the description or time field of an existing booking's row
\* updates the stored booking to the row's project, phase, parsed duration
\* and description when the three required fields are valid and one of the
\* four differs from the stored booking; in every other case (add-new row,
\* project or phase missing, time invalid, nothing changed) the booking list
\* is unchanged.
C27_BlurSavesValidChanges ==
    [][blurEvent' =>
          IF /\ worked # "new"
             /\ RowIsValid
             /\ RowDiffersFrom(workedBooking(bookings, selectedDate))
          THEN \E i \in PositionsOf(bookings, worked) :
                  bookings' = [bookings EXCEPT ![i] =
                      Booking(worked, bookings[i].date, selectedProject.id,
                              selectedPhase.id, parseTimeInput(timeInput)[1],
                              description)]
          ELSE bookings' = bookings]_vars

\* "1.5h" and a new description were typed into the first row and saved
C27_Witness ==
    /\ blurEvent
    /\ worked = "mock-1"
    /\ selectedDate = 0
    /\ bookings[1] = Booking("mock-1", formatDate(0), "1", "1-1", 90, "note")
    /\ description = "note"
    /\ Len(bookings) = 8

\* C28: every existing booking row starts in a valid state: for every booking
\* of the list, the time text its row is initialised with,
\* formatDuration(booking.duration), parses back to booking.duration (so that
\* the unedited row is not shown as invalid, and an edit of its description
\* alone is saved on blur).
C28_RowsStartValid ==
    \A i \in 1..Len(bookings) :
        /\ parseTimeInput(formatDuration(bookings[i].duration)) = Some(bookings[i].duration)
        /\ isValidDuration(parseTimeInput(rowStateFor(bookings[i]).timeInput))

(***************************************************************************)
(* SearchSelect: the committed value and the query.                        *)
(***************************************************************************)
\* C29: in every settled state (the effect on [value, getLabel] has run) a
\* committed value implies that the query is the value's label; a step that
\* makes the text differ from the committed value's label un-commits the
\* value (or commits another one); and a commit, by an accept key or by a
\* click on a dropdown item, sets the query to the committed item's label
\* and closes the dropdown.
C29_CommittedValueShowsItsLabel ==
    /\ [](ssValue # null => ssQuery = getLabel(ssValue))
    /\ [][(ssValue # null /\ ssQuery' # getLabel(ssValue)) =>
             /\ ssValue' # ssValue
             /\ ssValue' = null \/ ssQuery' = getLabel(ssValue')]_vars
    /\ [][(ssValue' # null /\ ssValue' # ssValue) =>
             /\ ssValue' \in Range(ssItems)
             /\ ssQuery' = getLabel(ssValue')
             /\ ~ssIsOpen']_vars

\* Enter has just committed Stripe: its label is the query, the dropdown is
\* closed
C29_Witness ==
    /\ ssItems = mockProjects
    /\ ssKeyEvent = KeyEvent("Enter", TRUE)
    /\ ssValue = Stripe
    /\ ssQuery = getLabel(Stripe)
    /\ ~ssIsOpen

(***************************************************************************)
(* Projects and their phases.                                              *)
(***************************************************************************)
\* the ids of the phases of mock.ts that belong to the project
PhaseIdsOf(projectId) ==
    {mockPhases[i].id : i \in {j \in 1..Len(mockPhases) : mockPhases[j].projectId = projectId}}

\* C30: in every reachable state the row's selected phase, when set, belongs
\* to the row's selected project, and every booking of the list has a phaseId
\* that is one of the phases of its projectId; any change of the project
\* selection, clearing it included, resets the phase to unset.
C30_PhaseBelongsToProject ==
    /\ [](/\ selectedPhase # null =>
                /\ selectedProject # null
                /\ selectedPhase.projectId = selectedProject.id
                /\ selectedPhase.id \in PhaseIdsOf(selectedProject.id)
          /\ \A i \in 1..Len(bookings) :
                bookings[i].phaseId \in PhaseIdsOf(bookings[i].projectId))
    /\ [][(/\ selectedProject' # selectedProject
           /\ selectedDate' = selectedDate
           /\ bookings' = bookings) => selectedPhase' = null]_vars

\* in the row of a Stripe booking the project was changed to Anthropic: the
\* phase is unset, the booking is as it was
C30_Witness ==
    /\ worked = "mock-4"
    /\ selectedDate = 1
    /\ selectedProject = Anthropic
    /\ selectedPhase = null
    /\ bookings = generateMockBookings(0)

====
